---- MODULE Spec2Model ----
(***************************************************************************)
(* chemspipy.search.Results: a search performed on a background thread,    *)
(* and the blocking, list-like accessors that read its outcome.            *)
(***************************************************************************)
EXTENDS Integers, Sequences, FiniteSets, TLC

\* ------------------------------------------------------------------ bounds
MaxRequests == 2
NReaders == 2
MaxLen == 2
MaxSharedRequests == 1
MaxAccesses == 3

\* ---------------------------------------------------------------- constants
\* Optional values are sequences of length 0 or 1: Python's None and a key
\* missing from a dict are the empty one.
None == <<>>
Absent == <<>>
Some(v) == <<v>>
Val(o) == o[1]

Readers == 1..NReaders

\* States the status endpoint can report (api.py get_async_search_status).
NonTerminalStates == {"Created", "Scheduled", "Processing"}
FailedStates == {"Failed", "Unknown", "Suspended"}
StatusStates == NonTerminalStates \cup FailedStates
                  \cup {"PartialResultReady", "ResultReady", "TooManyRecords"}

\* Transaction IDs searchfunc can return.
Rids == {"rid1", "rid2"}

\* An elapsed string "HH:MM:SS" or "HH:MM:SS.f": its fields, frac being the
\* digits after the '.', empty when the string has no '.'.
ElapsedStrings == {[hh |-> 0, mm |-> 0, ss |-> 1, frac |-> <<>>],
                   [hh |-> 0, mm |-> 1, ss |-> 2, frac |-> <<5>>]}
Messages == {"", "Found by CSID"}
Counts == {0, MaxLen}

\* The dicts the status call can return: 'message', 'count' and 'elapsed' are
\* optional keys; 'count' comes with the completed states only.
Opt(S) == {Absent} \cup {Some(v) : v \in S}
Snapshots == {s \in [status : StatusStates,
                     message : Opt(Messages),
                     count : Opt(Counts),
                     elapsed : Opt(ElapsedStrings)] :
                s.count # Absent => s.status \in {"PartialResultReady", "ResultReady"}}
NoSnapshot == [status |-> "unset", message |-> Absent, count |-> Absent, elapsed |-> Absent]
NoRid == "unset"

\* Lists of Compounds the result call can return (by CSID).
Csids == {236, 8525}
RECURSIVE SeqsUpTo(_)
SeqsUpTo(n) == IF n = 0 THEN {<<>>}
               ELSE LET shorter == SeqsUpTo(n - 1) IN
                    shorter \cup {Append(s, c) : s \in {t \in shorter : Len(t) = n - 1}, c \in Csids}
ResultLists == SeqsUpTo(MaxLen)

\* Exceptions (errors.py), by class; msg is the message the raiser passed.
\* A message is the sequence of the strings it is formatted from.
SubmitErrors == {[kind |-> "ChemSpiPyAuthError", msg |-> <<"Unauthorized.">>],
                 [kind |-> "ChemSpiPyRateError", msg |-> <<"Too Many Requests.">>]}
PollErrors == {[kind |-> "ChemSpiPyUnavailableError", msg |-> <<"Service Unavailable.">>]}
FetchErrors == {[kind |-> "ChemSpiPyNotFoundError", msg |-> <<"Not found.">>]}
KeyError(k) == [kind |-> "KeyError", msg |-> <<k>>]
ValueError == [kind |-> "ValueError", msg |-> <<"time data does not match format">>]
ChemSpiPyServerError(m) == [kind |-> "ChemSpiPyServerError", msg |-> m]
ChemSpiPyTimeoutError(m) == [kind |-> "ChemSpiPyTimeoutError", msg |-> m]
IndexError == [kind |-> "IndexError", msg |-> <<"list index out of range">>]

\* ------------------------------------------------------------------- state
VARIABLES
    _raise_errors,   \* Results._raise_errors
    _max_requests,   \* Results._max_requests
    _status,         \* Results._status
    _exception,      \* Results._exception
    _message,        \* Results._message
    _duration,       \* Results._duration (microseconds)
    _results,        \* Results._results
    pc,              \* position of the SearchThread in _search
    rid,             \* _search local: the transaction ID
    status,          \* _search local: the last status dict
    calls,           \* the collaborator calls made so far, in order
    sleeps,          \* time.sleep calls made so far
    readers,         \* the caller contexts and the accessor each is in
    constructor,     \* whether Results.__init__ has returned to its caller
    attrs,           \* a Compound's attributes set by memoized properties
    accesses         \* the accesses made to that Compound's memoized properties

vars == <<_raise_errors, _max_requests, _status, _exception, _message, _duration,
          _results, pc, rid, status, calls, sleeps, readers, constructor,
          attrs, accesses>>

taskvars == <<_status, _exception, _message, _duration, _results>>
threadvars == <<pc, rid, status, calls, sleeps>>
configvars == <<_raise_errors, _max_requests>>
compoundvars == <<attrs, accesses>>

\* A collaborator call: the function, the transaction ID passed, and how it
\* ended: "raised" (with the exception), "returned", or for the status call the
\* state it returned.
CallRec(fn, arg, out, exc) ==
    [fn |-> fn, arg |-> arg, out |-> out, exc |-> exc, res |-> None]
Returned(fn, arg, out) == CallRec(fn, arg, out, None)
Raised(fn, arg, e) == CallRec(fn, arg, "raised", Some(e))
\* get_async_search_result(rid) returning the list l
Fetched(arg, l) == [Returned("fetch", arg, "returned") EXCEPT !.res = Some(l)]

\* Iterations of the for loop started so far (one status call each).
polls == Cardinality({k \in 1..Len(calls) : calls[k].fn = "poll"})

\* ------------------------------------------------------------- utils.duration
\* strptime's %f takes one to six digits and pads them on the right.
RECURSIVE FracMicros(_, _)
FracMicros(digits, scale) ==
    IF digits = <<>> THEN 0
    ELSE Head(digits) * scale + FracMicros(Tail(digits), scale \div 10)

ParsesAsDuration(ts) ==
    /\ ts.hh \in 0..23 /\ ts.mm \in 0..59 /\ ts.ss \in 0..61
    /\ Len(ts.frac) \in 0..6

duration(ts) ==
    ((ts.hh * 60 + ts.mm) * 60 + ts.ss) * 1000000
      + FracMicros(ts.frac, 100000)

\* Python truth of an optional string: None and '' are false.
Falsy(m) == m = None \/ m = Some("")

\* status.get('message', '')
GetMessage(s) == IF s.message = Absent THEN "" ELSE Val(s.message)

\* 'Search Failed: %s' % message
SearchFailed(m) == <<"Search Failed: ", m>>

\* ------------------------------------------------- utils.memoized_property
\* The memoized properties of Compound, by the name of the wrapped function,
\* what the request behind one can return, and what it can raise.
MemoizedProperties == {"_compound_info", "_extended_compound_info"}
InfoValues == {"info A", "info B"}
RequestErrors == {[kind |-> "ChemSpiPyUnavailableError", msg |-> <<"Service Unavailable.">>]}

\* One access to a memoized property: whether fget was called, and what the
\* access gave.
Access(p, requested, out, val, exc) ==
    [prop |-> p, requested |-> requested, out |-> out, val |-> val, exc |-> exc]

\* ---------------------------------------------------------------- __init__
IdleReader == [pc |-> "idle", op |-> "none", index |-> 0, stop |-> None, val |-> None]

Init ==
    /\ _raise_errors \in BOOLEAN
    /\ _max_requests \in 0..MaxRequests
    /\ _status = "Created"
    /\ _exception = None
    /\ _message = None
    /\ _duration = None
    /\ _results = <<>>
    /\ pc = "submit"
    /\ rid = NoRid
    /\ status = NoSnapshot
    /\ calls = <<>>
    /\ sleeps = 0
    /\ readers = [r \in {1} |-> IdleReader]
    /\ constructor = "started thread"
    /\ attrs = [p \in MemoizedProperties |-> Absent]
    /\ accesses = <<>>

\* Mutant: the constructor joins the thread before it returns.
InitReturnsJoining ==
    /\ constructor = "started thread"
    /\ pc = "dead"
    /\ constructor' = "returned"
    /\ UNCHANGED <<taskvars, threadvars, readers, configvars, compoundvars>>

\* self._searchthread.start() has returned; __init__ returns to its caller
InitReturns ==
    /\ constructor = "started thread"
    /\ constructor' = "returned"
    /\ UNCHANGED <<taskvars, threadvars, readers, configvars, compoundvars>>

\* ----------------------------------------------------------------- _search
\* Mutant: no except clause, the exception ends the thread.
ExceptUncaught(e) ==
    /\ _exception' = _exception
    /\ pc' = "dead"

\* except Exception as e: self._exception = e
Except(e) ==
    /\ _exception' = Some(e)
    /\ pc' = "return"

\* Mutant: searchfunc called before the try block, so that its exception ends
\* the thread without being stored.
SubmitOutsideTry ==
    /\ pc = "submit"
    /\ \/ \E h \in Rids :
            /\ rid' = h
            /\ calls' = Append(calls, Returned("submit", NoRid, "returned"))
            /\ pc' = "loop"
       \/ \E e \in SubmitErrors :
            /\ calls' = Append(calls, Raised("submit", NoRid, e))
            /\ pc' = "dead"
            /\ UNCHANGED rid
    /\ UNCHANGED <<taskvars, status, sleeps, readers, constructor, configvars, compoundvars>>

\* rid = searchfunc(*searchargs)
Submit ==
    /\ pc = "submit"
    /\ \/ \E h \in Rids :
            /\ rid' = h
            /\ calls' = Append(calls, Returned("submit", NoRid, "returned"))
            /\ pc' = "loop"
            /\ UNCHANGED _exception
       \/ \E e \in SubmitErrors :
            /\ Except(e)
            /\ calls' = Append(calls, Raised("submit", NoRid, e))
            /\ UNCHANGED rid
    /\ UNCHANGED <<_status, _message, _duration, _results, status, sleeps,
                   readers, constructor, configvars, compoundvars>>

\* Mutant: the status call made without the transaction ID.
PollRidUnset == NoRid

\* for _ in six.moves.range(self._max_requests):
\*     status = cs.get_async_search_status_and_count(rid)
PollRid == rid

Poll ==
    /\ pc = "loop"
    /\ polls < _max_requests
    /\ \/ \E s \in Snapshots :
            /\ status' = s
            /\ calls' = Append(calls, Returned("poll", PollRid, s.status))
            /\ pc' = "set_status"
            /\ UNCHANGED _exception
       \/ \E e \in PollErrors :
            /\ Except(e)
            /\ calls' = Append(calls, Raised("poll", PollRid, e))
            /\ UNCHANGED status
    /\ UNCHANGED <<_status, _message, _duration, _results, rid, sleeps,
                   readers, constructor, configvars, compoundvars>>

\* Mutant: a loop without a bound on the number of status calls it waits for.
LoopNeverExhausted == FALSE

\* for ... else: raise ChemSpiPyTimeoutError('Search took too long')
LoopExhausted == polls >= _max_requests

\* Mutant: the for loop without its else clause, falling out of the try block.
TimeoutFallsThrough ==
    /\ pc = "loop"
    /\ LoopExhausted
    /\ pc' = "return"
    /\ UNCHANGED <<taskvars, rid, status, calls, sleeps, readers, constructor, configvars, compoundvars>>

Timeout ==
    /\ pc = "loop"
    /\ LoopExhausted
    /\ Except(ChemSpiPyTimeoutError(<<"Search took too long">>))
    /\ UNCHANGED <<_status, _message, _duration, _results, rid, status,
                   calls, sleeps, readers, constructor, configvars, compoundvars>>

\* self._status = status['status']
\* Mutant: the state of a failed search is not recorded.
SetStatusUnlessFailed ==
    /\ pc = "set_status"
    /\ _status' = (IF status.status \in FailedStates THEN _status ELSE status.status)
    /\ pc' = "set_message"
    /\ UNCHANGED <<_exception, _message, _duration, _results, rid, status,
                   calls, sleeps, readers, constructor, configvars, compoundvars>>

\* self._status = status['status']
SetStatus ==
    /\ pc = "set_status"
    /\ _status' = status.status
    /\ pc' = "set_message"
    /\ UNCHANGED <<_exception, _message, _duration, _results, rid, status,
                   calls, sleeps, readers, constructor, configvars, compoundvars>>

\* self._message = status.get('message', '')
\* Mutant: the message of a failed search is left for the exception only.
SetMessageUnlessFailed ==
    /\ pc = "set_message"
    /\ _message' = (IF status.status \in FailedStates THEN _message
                    ELSE Some(GetMessage(status)))
    /\ pc' = "set_duration"
    /\ UNCHANGED <<_status, _exception, _duration, _results, rid, status,
                   calls, sleeps, readers, constructor, configvars, compoundvars>>

\* self._message = status.get('message', '')
SetMessage ==
    /\ pc = "set_message"
    /\ _message' = Some(GetMessage(status))
    /\ pc' = "set_duration"
    /\ UNCHANGED <<_status, _exception, _duration, _results, rid, status,
                   calls, sleeps, readers, constructor, configvars, compoundvars>>

\* self._duration = duration(status['elapsed'])
\* self._duration = duration(status['elapsed'])
SetDuration ==
    /\ pc = "set_duration"
    /\ IF status.elapsed = Absent
         THEN Except(KeyError("elapsed")) /\ UNCHANGED _duration
         ELSE IF ~ParsesAsDuration(Val(status.elapsed))
           THEN Except(ValueError) /\ UNCHANGED _duration
           ELSE /\ _duration' = Some(duration(Val(status.elapsed)))
                /\ pc' = "sleep"
                /\ UNCHANGED _exception
    /\ UNCHANGED <<_status, _message, _results, rid, status,
                   calls, sleeps, readers, constructor, configvars, compoundvars>>

\* time.sleep(0.2)
Sleep ==
    /\ pc = "sleep"
    /\ sleeps' = sleeps + 1
    /\ pc' = "check"
    /\ UNCHANGED <<taskvars, rid, status, calls, readers, constructor, configvars, compoundvars>>

\* Mutant: a break that is not taken in the last iteration.
BreaksLoopBeforeLast(s) == s.status = "ResultReady" /\ polls < _max_requests

\* Mutant: PartialResultReady leaves the loop too.
BreaksLoopOnPartial(s) == s.status \in {"PartialResultReady", "ResultReady"}

\* if status['status'] == 'ResultReady': break
BreaksLoop(s) == s.status = "ResultReady"

\* elif status['status'] in {'Failed', 'Unknown', 'Suspended'} / 'TooManyRecords'
Check ==
    /\ pc = "check"
    /\ IF BreaksLoop(status)
         THEN pc' = "success" /\ UNCHANGED _exception
         ELSE IF status.status \in FailedStates
           THEN Except(ChemSpiPyServerError(SearchFailed(GetMessage(status))))
           ELSE IF status.status = "TooManyRecords"
             THEN Except(ChemSpiPyServerError(<<"Too many results">>))
             ELSE pc' = "loop" /\ UNCHANGED _exception
    /\ UNCHANGED <<_status, _message, _duration, _results, rid, status,
                   calls, sleeps, readers, constructor, configvars, compoundvars>>

\* Mutant: the result call made without the transaction ID.
FetchRidUnset == NoRid

\* the argument of cs.get_async_search_result(rid)
FetchRid == rid

\* if status['count'] > 0: self._results = cs.get_async_search_result(rid)
\* elif not self._message: self._message = 'No results found'

Success ==
    /\ pc = "success"
    /\ IF status.count = Absent
         THEN /\ Except(KeyError("count"))
              /\ UNCHANGED <<_results, _message, calls>>
         ELSE IF Val(status.count) > 0
           THEN /\ \/ \E l \in ResultLists :
                        /\ _results' = l
                        /\ calls' = Append(calls, Fetched(FetchRid, l))
                        /\ pc' = "return"
                        /\ UNCHANGED _exception
                   \/ \E e \in FetchErrors :
                        /\ Except(e)
                        /\ calls' = Append(calls, Raised("fetch", FetchRid, e))
                        /\ UNCHANGED _results
                /\ UNCHANGED _message
           ELSE /\ _message' = (IF Falsy(_message) THEN Some("No results found") ELSE _message)
                /\ pc' = "return"
                /\ UNCHANGED <<_exception, _results, calls>>
    /\ UNCHANGED <<_status, _duration, rid, status, sleeps, readers,
                   constructor, configvars, compoundvars>>

\* _search returns and the thread ends: is_alive() turns False
ThreadExit ==
    /\ pc = "return"
    /\ pc' = "dead"
    /\ UNCHANGED <<taskvars, rid, status, calls, sleeps, readers, constructor, configvars, compoundvars>>

ThreadStep ==
    \/ Submit \/ Poll \/ Timeout \/ SetStatus \/ SetMessage \/ SetDuration
    \/ Sleep \/ Check \/ Success \/ ThreadExit

\* ------------------------------------------------- non-blocking accessors
\* not self._searchthread.is_alive()
ready == pc = "dead"

\* the status property: self._status
Results_status == _status

\* Mutant: success() that does not ask whether the thread has ended.
successWithoutReady == _exception = None

\* self.ready() and not self._exception
success == ready /\ _exception = None

\* Mutant: __repr__ that shows the results as soon as no failure is stored.
Results_reprWithoutReady ==
    IF _exception = None
      THEN [format |-> "Results(%s)", list |-> Some(_results), state |-> None]
      ELSE [format |-> "Results(%s)", list |-> None, state |-> Some(Results_status)]

\* __repr__: 'Results(%s)' % self._results if self.success(),
\* else 'Results(%s)' % self.status
Results_repr ==
    IF success
      THEN [format |-> "Results(%s)", list |-> Some(_results), state |-> None]
      ELSE [format |-> "Results(%s)", list |-> None, state |-> Some(Results_status)]

\* ----------------------------------------------------- blocking accessors
BlockingOps == {"wait", "exception", "message", "count", "duration",
                "__getitem__", "__len__", "__iter__"}
Indexes == -1..MaxLen
\* slices index:stop
Slices == {<<0, 1>>, <<1, MaxLen + 1>>}
\* the arguments of __getitem__: an integer, or a slice (index, stop)
GetItemArgs == {<<i, None>> : i \in Indexes} \cup {<<sl[1], Some(sl[2])>> : sl \in Slices}

\* list.__getitem__(index) for an integer index
InRange(l, index) == -Len(l) <= index /\ index < Len(l)
ListGetItem(l, index) == IF index < 0 THEN l[Len(l) + index + 1] ELSE l[index + 1]
\* list.__getitem__(slice(index, stop)) for 0 <= index, 0 <= stop: both ends
\* are clipped to the length of the list
ListGetSlice(l, index, stop) ==
    LET lo == IF index < Len(l) THEN index ELSE Len(l)
        hi == IF stop < Len(l) THEN stop ELSE Len(l)
    IN  IF hi <= lo THEN <<>> ELSE [k \in 1..(hi - lo) |-> l[lo + k]]

\* A caller that holds the constructed object enters an accessor; each of them
\* starts with self.wait().
Call(r) ==
    /\ constructor = "returned"
    /\ readers[r].pc \in {"idle", "returned", "raised"}
    /\ \E op \in BlockingOps :
         \E arg \in (IF op = "__getitem__" THEN GetItemArgs ELSE {<<0, None>>}) :
            readers' = [readers EXCEPT ![r] =
                          [pc |-> "join", op |-> op, index |-> arg[1],
                           stop |-> arg[2], val |-> None]]
    /\ UNCHANGED <<taskvars, threadvars, constructor, configvars, compoundvars>>

\* Mutant: wait() without the join.
JoinReturnsAtOnce == TRUE

\* self._searchthread.join() returns
JoinReturns == pc = "dead"

\* Mutants: only wait() itself raises; raise_errors is not consulted.
WaitRaisesOnlyInWait(op) == _exception # None /\ _raise_errors /\ op = "wait"
WaitRaisesAlways(op) == _exception # None

\* if self._exception and self._raise_errors: raise self._exception
WaitRaises(op) == _exception # None /\ _raise_errors

\* Mutant: wait() that forgets the failure once it has raised it.
WaitClearing(r) ==
    /\ readers[r].pc = "join"
    /\ JoinReturns
    /\ LET rd == readers[r] IN
       IF WaitRaises(rd.op)
         THEN /\ readers' = [readers EXCEPT ![r] =
                               [rd EXCEPT !.pc = "raised", !.val = _exception]]
              /\ _exception' = None
         ELSE /\ readers' = [readers EXCEPT ![r] =
                               IF rd.op = "wait"
                                 THEN [rd EXCEPT !.pc = "returned", !.val = None]
                                 ELSE [rd EXCEPT !.pc = "waited"]]
              /\ UNCHANGED _exception
    /\ UNCHANGED <<_status, _message, _duration, _results, threadvars, constructor,
                   configvars, compoundvars>>

Wait(r) ==
    /\ readers[r].pc = "join"
    /\ JoinReturns
    /\ LET rd == readers[r] IN
       readers' = [readers EXCEPT ![r] =
                     IF WaitRaises(rd.op)
                       THEN [rd EXCEPT !.pc = "raised", !.val = _exception]
                       ELSE IF rd.op = "wait"
                         THEN [rd EXCEPT !.pc = "returned", !.val = None]
                         ELSE [rd EXCEPT !.pc = "waited"]]
    /\ UNCHANGED <<taskvars, threadvars, constructor, configvars, compoundvars>>

\* Mutant: the result list is handed out in reverse order.
AccessorValueReversed(op, index) ==
    LET reversed == [i \in 1..Len(_results) |-> _results[Len(_results) + 1 - i]] IN
    CASE op = "exception" -> _exception
      [] op = "message" -> _message
      [] op = "duration" -> _duration
      [] op \in {"count", "__len__"} -> Len(_results)
      [] op = "__iter__" -> reversed
      [] op = "__getitem__" -> ListGetItem(reversed, index)

\* Mutant: count is the count field of the last snapshot.
AccessorValueSnapshotCount(op, index) ==
    CASE op = "exception" -> _exception
      [] op = "message" -> _message
      [] op = "duration" -> _duration
      [] op = "count" -> IF status.count = Absent THEN 0 ELSE Val(status.count)
      [] op = "__len__" -> Len(_results)
      [] op = "__iter__" -> _results
      [] op = "__getitem__" -> ListGetItem(_results, index)

\* what the accessor returns after self.wait()
AccessorValue(op, index) ==
    CASE op = "exception" -> _exception
      [] op = "message" -> _message
      [] op = "duration" -> _duration
      [] op \in {"count", "__len__"} -> Len(_results)
      [] op = "__iter__" -> _results
      [] op = "__getitem__" -> ListGetItem(_results, index)

\* Mutant: iterating asks the server for the records again.
ReturnRefetching(r) ==
    /\ readers[r].pc = "waited"
    /\ LET rd == readers[r] IN
       IF rd.op = "__iter__" /\ _exception = None /\ rid # NoRid
         THEN \E l \in ResultLists :
                /\ _results' = l
                /\ calls' = Append(calls, Fetched(FetchRid, l))
                /\ readers' = [readers EXCEPT ![r] =
                                 [rd EXCEPT !.pc = "returned", !.val = l]]
         ELSE /\ readers' = [readers EXCEPT ![r] =
                     IF rd.op = "__getitem__" /\ rd.stop # None
                       THEN [rd EXCEPT !.pc = "returned",
                               !.val = ListGetSlice(_results, rd.index, Val(rd.stop))]
                     ELSE IF rd.op = "__getitem__" /\ ~InRange(_results, rd.index)
                       THEN [rd EXCEPT !.pc = "raised", !.val = Some(IndexError)]
                       ELSE [rd EXCEPT !.pc = "returned",
                                       !.val = AccessorValue(rd.op, rd.index)]]
              /\ UNCHANGED <<_results, calls>>
    /\ UNCHANGED <<_status, _exception, _message, _duration, pc, rid, status, sleeps,
                   constructor, configvars, compoundvars>>

\* Mutant: the message accessor fills in a default message.
ReturnDefaultingMessage(r) ==
    /\ readers[r].pc = "waited"
    /\ LET rd == readers[r]
           m == IF rd.op = "message" /\ Falsy(_message)
                  THEN Some("No results found") ELSE _message
       IN /\ _message' = m
          /\ readers' = [readers EXCEPT ![r] =
                     IF rd.op = "__getitem__" /\ rd.stop # None
                       THEN [rd EXCEPT !.pc = "returned",
                               !.val = ListGetSlice(_results, rd.index, Val(rd.stop))]
                     ELSE IF rd.op = "__getitem__" /\ ~InRange(_results, rd.index)
                       THEN [rd EXCEPT !.pc = "raised", !.val = Some(IndexError)]
                     ELSE IF rd.op = "message"
                       THEN [rd EXCEPT !.pc = "returned", !.val = m]
                       ELSE [rd EXCEPT !.pc = "returned",
                                       !.val = AccessorValue(rd.op, rd.index)]]
    /\ UNCHANGED <<_status, _exception, _duration, _results, threadvars, constructor,
                   configvars, compoundvars>>

\* Mutant: with raise_errors false an index out of range gives None.
ReturnSwallowingIndexError(r) ==
    /\ readers[r].pc = "waited"
    /\ LET rd == readers[r] IN
       readers' = [readers EXCEPT ![r] =
                     IF rd.op = "__getitem__" /\ rd.stop # None
                       THEN [rd EXCEPT !.pc = "returned",
                               !.val = ListGetSlice(_results, rd.index, Val(rd.stop))]
                     ELSE IF rd.op = "__getitem__" /\ ~InRange(_results, rd.index)
                       THEN IF _raise_errors
                              THEN [rd EXCEPT !.pc = "raised", !.val = Some(IndexError)]
                              ELSE [rd EXCEPT !.pc = "returned", !.val = None]
                       ELSE [rd EXCEPT !.pc = "returned",
                                       !.val = AccessorValue(rd.op, rd.index)]]
    /\ UNCHANGED <<taskvars, threadvars, constructor, configvars, compoundvars>>

\* return self._results.__getitem__(index) and the other accessors' returns
Return(r) ==
    /\ readers[r].pc = "waited"
    /\ LET rd == readers[r] IN
       readers' = [readers EXCEPT ![r] =
                     IF rd.op = "__getitem__" /\ rd.stop # None
                       THEN [rd EXCEPT !.pc = "returned",
                               !.val = ListGetSlice(_results, rd.index, Val(rd.stop))]
                     ELSE IF rd.op = "__getitem__" /\ ~InRange(_results, rd.index)
                       THEN [rd EXCEPT !.pc = "raised", !.val = Some(IndexError)]
                       ELSE [rd EXCEPT !.pc = "returned",
                                       !.val = AccessorValue(rd.op, rd.index)]]
    /\ UNCHANGED <<taskvars, threadvars, constructor, configvars, compoundvars>>

ReaderStep == \E r \in DOMAIN readers : Call(r) \/ Wait(r) \/ Return(r)

Next == InitReturns \/ ThreadStep \/ ReaderStep

\* One caller context.
Spec == Init /\ [][Next]_vars

\* NReaders caller contexts sharing one Results object, whose max_requests is
\* at most MaxSharedRequests.
InitShared ==
    /\ Init!1 /\ _max_requests \in 0..MaxSharedRequests /\ Init!3 /\ Init!4 /\ Init!5 /\ Init!6 /\ Init!7
    /\ Init!8 /\ Init!9 /\ Init!10 /\ Init!11 /\ Init!12 /\ Init!14
    /\ Init!15 /\ Init!16
    /\ readers = [r \in Readers |-> IdleReader]

SpecShared == InitShared /\ [][Next]_vars

\* ------------------------------------------------- Compound's memoized properties
\* Mutant: fget_memoized that does not keep what fget returned.
fget_memoizedWithoutSetattr(p) ==
    /\ Len(accesses) < MaxAccesses
    /\ \/ \E v \in InfoValues :
            accesses' = Append(accesses, Access(p, TRUE, "returned", Some(v), None))
       \/ \E e \in RequestErrors :
            accesses' = Append(accesses, Access(p, TRUE, "raised", None, Some(e)))
    /\ UNCHANGED <<attrs, taskvars, threadvars, readers, constructor, configvars>>

\* if not hasattr(self, attr_name): setattr(self, attr_name, fget(self))
\* return getattr(self, attr_name)
fget_memoized(p) ==
    /\ Len(accesses) < MaxAccesses
    /\ IF attrs[p] # Absent
         THEN /\ accesses' = Append(accesses, Access(p, FALSE, "returned", attrs[p], None))
              /\ UNCHANGED attrs
         ELSE \/ \E v \in InfoValues :
                   /\ attrs' = [attrs EXCEPT ![p] = Some(v)]
                   /\ accesses' = Append(accesses, Access(p, TRUE, "returned", Some(v), None))
              \/ \E e \in RequestErrors :
                   /\ accesses' = Append(accesses, Access(p, TRUE, "raised", None, Some(e)))
                   /\ UNCHANGED attrs
    /\ UNCHANGED <<taskvars, threadvars, readers, constructor, configvars>>

NextCompound == \E p \in MemoizedProperties : fget_memoized(p)

\* One Compound and the sequential accesses to its memoized properties.
SpecCompound == Init /\ [][NextCompound]_vars

\* One caller context, with the scheduling the threads get: the running
\* SearchThread goes on (every collaborator call and time.sleep returns or
\* raises), __init__ returns, and a caller inside an accessor goes on once
\* join() can return. Nothing makes a caller call an accessor.
FairSpec ==
    /\ Spec
    /\ WF_vars(ThreadStep)
    /\ WF_vars(InitReturns)
    /\ WF_vars(Wait(1) \/ Return(1))
\* ------------------------------------------------------------------ claims
Finished == pc \in {"return", "dead"}
LastCall == calls[Len(calls)]
PollCalls == {k \in 1..Len(calls) : calls[k].fn = "poll"}
Done(r) == readers[r].pc \in {"returned", "raised"}

\* C1: once ready() is true, either a failure is stored and the result list is
\* empty, or no failure is stored and the loop was left on a ResultReady
\* snapshot (the task succeeded, with a possibly empty result list).
C1_ExactlyOneOutcome ==
    ready =>
      \/ _exception # None /\ _results = <<>>
      \/ /\ _exception = None
         /\ _results \in ResultLists
         /\ calls # <<>>
         /\ \E k \in PollCalls :
               /\ calls[k].out = "ResultReady"
               /\ \A j \in PollCalls : j <= k

\* C1 witness: a finished task whose result call raised after ResultReady.
C1_Witness ==
    /\ ready
    /\ _exception # None
    /\ LastCall.fn = "fetch"
    /\ _status = "ResultReady"

\* C2: no blocking accessor has returned or raised while the search thread is
\* alive, for every caller context; once the thread has ended a caller in
\* join() can go on, and callers of the same accessor (with the same argument)
\* got the same outcome.
C2_AccessorsJoinFirst ==
    \A r \in DOMAIN readers :
      /\ readers[r].pc \in {"waited", "returned", "raised"} => ready
      /\ (ready /\ readers[r].pc = "join") => ENABLED Wait(r)
      /\ \A q \in DOMAIN readers :
            (/\ Done(r) /\ Done(q)
             /\ readers[r].op = readers[q].op
             /\ readers[r].index = readers[q].index
             /\ readers[r].stop = readers[q].stop) => readers[r] = readers[q]

\* C2 witness: two callers have both been handed the length of the results.
C2_Witness ==
    /\ Cardinality(DOMAIN readers) >= 2
    /\ \A r \in DOMAIN readers :
          /\ readers[r].pc = "returned"
          /\ readers[r].op = "__len__"
          /\ readers[r].val = MaxLen

\* C3: in every step taken once the thread has ended, the stored failure, the
\* result list, the message, the duration and the status keep their values.
C3_TerminalValuesFrozen == [][ready => taskvars' = taskvars]_vars

\* C3 witness: the thread has ended with a failure and a caller has since been
\* through an accessor that raised it.
C3_Witness ==
    /\ ready
    /\ _exception # None
    /\ \E r \in DOMAIN readers : readers[r].pc = "raised" /\ readers[r].val = _exception
\* C4: with a status call that only ever returns Created, Scheduled or
\* Processing, the loop makes exactly max_requests status calls and no further
\* one, then stores ChemSpiPyTimeoutError (not a ChemSpiPyServerError) without
\* fetching results, and the thread can end.
OnlyNonTerminalPolled == \A k \in PollCalls : calls[k].out \in NonTerminalStates
TimedOut ==
    /\ polls = _max_requests
    /\ _exception = Some(ChemSpiPyTimeoutError(<<"Search took too long">>))
    /\ Val(_exception).kind # "ChemSpiPyServerError"
    /\ \A k \in 1..Len(calls) : calls[k].fn # "fetch"
    /\ _results = <<>>
    /\ pc = "return" => ENABLED ThreadExit

C4_TimeoutAfterMaxRequests ==
    /\ polls <= _max_requests
    /\ (Finished /\ rid # NoRid /\ OnlyNonTerminalPolled) => TimedOut

\* C4, for snapshots that carry 'elapsed': the same, when no status dict
\* lacked the key.
C4_TimeoutWhenElapsedPresent ==
    /\ polls <= _max_requests
    /\ (/\ Finished /\ rid # NoRid /\ OnlyNonTerminalPolled
        /\ _exception # Some(KeyError("elapsed"))) => TimedOut

\* C5 as stated: an exception of searchfunc is not stored as the failure.
C5_SubmitFailureNotStored ==
    (calls # <<>> /\ calls[1].out = "raised") => _exception = None

\* C5 as amended: searchfunc runs on the search thread, after __init__ has
\* returned; its exception is caught there and stored as the failure, the
\* thread ends normally, and no status or result call is made.
C5_SubmitFailureStoredByThread ==
    /\ pc = "submit" => calls = <<>> /\ _exception = None
    /\ (calls # <<>> /\ calls[1].out = "raised") =>
          /\ calls[1].fn = "submit"
          /\ Len(calls) = 1
          /\ Finished
          /\ _exception = calls[1].exc
          /\ Val(_exception) \in SubmitErrors
          /\ _results = <<>>
          /\ ~success

\* C5 witness: the thread has ended on an exception of searchfunc.
C5_Witness ==
    /\ ready
    /\ calls # <<>> /\ calls[1].out = "raised"
    /\ _exception # None

\* C6: a status call returning Failed, Unknown or Suspended is the last call,
\* and the failure stored is ChemSpiPyServerError with that snapshot's
\* message; one returning TooManyRecords is the last call, and the failure is
\* ChemSpiPyServerError('Too many results').
ServerFailureStored ==
    \A k \in PollCalls :
      /\ calls[k].out \in FailedStates \cup {"TooManyRecords"} => k = Len(calls)
      /\ (Finished /\ calls[k].out \in FailedStates) =>
            _exception = Some(ChemSpiPyServerError(SearchFailed(GetMessage(status))))
      /\ (Finished /\ calls[k].out = "TooManyRecords") =>
            _exception = Some(ChemSpiPyServerError(<<"Too many results">>))

C6_ServerFailureStored == ServerFailureStored

\* C6, for snapshots that carry 'elapsed'.
C6_ServerFailureWhenElapsedPresent ==
    _exception # Some(KeyError("elapsed")) => ServerFailureStored

\* C7: a collaborator call that raised is the last call; its exception is the
\* stored failure, the thread goes on to end normally, and success() is false.
C7_ExceptionsCaughtAndStored ==
    \A k \in 1..Len(calls) :
      calls[k].out = "raised" =>
        /\ k = Len(calls)
        /\ Finished
        /\ pc = "return" => ENABLED ThreadExit
        /\ _exception = calls[k].exc
        /\ _exception # None
        /\ ~success

\* C7 witness: the second status call raised and the thread has ended.
C7_Witness ==
    /\ ready
    /\ polls = 2
    /\ LastCall.fn = "poll" /\ LastCall.out = "raised"

\* C8: with raise_errors=True and a failure stored, every call of a blocking
\* accessor that has got past join() has raised the stored failure.
C8_EveryAccessorRaises ==
    (_raise_errors /\ _exception # None) =>
      \A r \in DOMAIN readers :
        readers[r].pc \in {"waited", "returned", "raised"} =>
          readers[r].pc = "raised" /\ readers[r].val = _exception

\* C8 witness: count has raised the stored failure.
C8_Witness ==
    /\ _raise_errors
    /\ \E r \in DOMAIN readers :
          /\ readers[r].op = "count"
          /\ readers[r].pc = "raised"
          /\ readers[r].val = _exception
          /\ _exception # None

\* C9: with raise_errors=False the only exception an accessor raises is the
\* IndexError of indexing, and the exception property returns the stored
\* failure; ready(), success() and status always have a value.
C9_NothingRaisedWhenNotRaiseErrors ==
    /\ ready \in BOOLEAN /\ success \in BOOLEAN
    /\ Results_status \in StatusStates
    /\ ~_raise_errors =>
         \A r \in DOMAIN readers :
           /\ readers[r].pc = "raised" =>
                readers[r].op = "__getitem__" /\ readers[r].val = Some(IndexError)
           /\ (readers[r].pc = "returned" /\ readers[r].op = "exception") =>
                readers[r].val = _exception

\* C9 witness: after a failed task, the exception property has returned the
\* failure.
C9_Witness ==
    /\ ~_raise_errors
    /\ _exception # None
    /\ \E r \in DOMAIN readers :
          /\ readers[r].op = "exception"
          /\ readers[r].pc = "returned"
          /\ readers[r].val = _exception

\* C10 as stated: the call after a status call that returned
\* PartialResultReady is the result call, never another status call.
C10_PartialExitsLoop ==
    \A k \in PollCalls :
      (calls[k].out = "PartialResultReady" /\ k < Len(calls)) => calls[k + 1].fn = "fetch"

\* C10 as amended: PartialResultReady does not leave the loop. A result call
\* directly follows a status call that returned ResultReady, nothing is
\* fetched after PartialResultReady, and a task whose last status call
\* returned PartialResultReady ends in failure.
C10_OnlyResultReadyExitsLoop ==
    /\ \A k \in 1..Len(calls) :
         calls[k].fn = "fetch" =>
           k > 1 /\ calls[k - 1].fn = "poll" /\ calls[k - 1].out = "ResultReady"
    /\ \A k \in PollCalls :
         calls[k].out = "PartialResultReady" =>
           /\ k = Len(calls) => pc # "success"
           /\ k < Len(calls) => calls[k + 1].fn = "poll"
           /\ (k = Len(calls) /\ ready) => _exception # None /\ _results = <<>>

\* C10 witness: the task timed out after a PartialResultReady snapshot on the
\* last status call allowed.
C10_Witness ==
    /\ ready
    /\ LastCall.fn = "poll" /\ LastCall.out = "PartialResultReady"
    /\ _exception = Some(ChemSpiPyTimeoutError(<<"Search took too long">>))

\* The snapshot of the last collaborator call, when that call is a status call
\* that returned the state st.
LastPolled(st) ==
    /\ calls # <<>>
    /\ LastCall.fn = "poll"
    /\ LastCall.out = st

\* What the task keeps of the message of the snapshot s when no result is found.
NoResultsMessage(s) ==
    IF GetMessage(s) = "" THEN Some("No results found") ELSE Some(GetMessage(s))

\* C11: a task that ends on a ResultReady snapshot with count = 0 has succeeded
\* with an empty result list, and its message is 'No results found' when the
\* snapshot's message is empty or absent, the snapshot's message otherwise.
C11_NoResultsFound ==
    (Finished /\ LastPolled("ResultReady") /\ status.count = Some(0)) =>
      /\ _exception = None
      /\ _results = <<>>
      /\ _message = NoResultsMessage(status)

\* C11, when the snapshot carries 'elapsed': the claim holds.
C11_NoResultsFoundWhenElapsedPresent ==
    (Finished /\ LastPolled("ResultReady") /\ status.count = Some(0)
       /\ status.elapsed # Absent /\ ParsesAsDuration(Val(status.elapsed))) =>
      /\ _exception = None
      /\ _results = <<>>
      /\ _message = NoResultsMessage(status)

\* C12: a task that ends on a ResultReady snapshot without a count (and with a
\* well-formed 'elapsed') has succeeded with an empty result list, and with the
\* message 'No results found' when the snapshot has no message.
C12_AbsentCountIsZero ==
    (Finished /\ LastPolled("ResultReady") /\ status.count = Absent
       /\ status.elapsed # Absent /\ ParsesAsDuration(Val(status.elapsed))) =>
      /\ _exception = None
      /\ _results = <<>>
      /\ _message = NoResultsMessage(status)

\* C12, what the code does: the task ends in failure with KeyError('count'),
\* nothing fetched.
C12_AbsentCountIsKeyError ==
    (Finished /\ LastPolled("ResultReady") /\ status.count = Absent
       /\ status.elapsed # Absent /\ ParsesAsDuration(Val(status.elapsed))) =>
      /\ _exception = Some(KeyError("count"))
      /\ _results = <<>>

\* C13: a Created, Scheduled or Processing snapshot that omits 'message' or
\* 'elapsed' does not end the task: when the task has ended and its last
\* status call returned such a snapshot, it ended by the timeout.
C13_OmissionNeverFails ==
    (Finished /\ calls # <<>> /\ LastCall.fn = "poll"
       /\ LastCall.out \in NonTerminalStates
       /\ (status.message = Absent \/ status.elapsed = Absent)) =>
      _exception = Some(ChemSpiPyTimeoutError(<<"Search took too long">>))

\* C13, for 'message' alone: omitting it from a non-terminal snapshot that
\* carries a well-formed 'elapsed' does not end the task.
C13_MessageOmissionNeverFails ==
    (Finished /\ calls # <<>> /\ LastCall.fn = "poll"
       /\ LastCall.out \in NonTerminalStates
       /\ status.message = Absent
       /\ status.elapsed # Absent /\ ParsesAsDuration(Val(status.elapsed))) =>
      _exception = Some(ChemSpiPyTimeoutError(<<"Search took too long">>))

\* The list the result call returned, when that call is the last one made.
FetchReturned == calls # <<>> /\ LastCall.fn = "fetch" /\ LastCall.out = "returned"
FetchedList == Val(LastCall.res)

\* C14: what a caller gets from a task whose result call returned the list l:
\* len() is the length of l, results[i] for 0 <= i < len(l) is the i-th element
\* of l and does not raise, and iteration gives the elements of l in order.
C14_FetchedSequencePreserved ==
    \A r \in DOMAIN readers :
      (FetchReturned /\ Done(r)) =>
        LET rd == readers[r]  l == FetchedList IN
        /\ rd.op = "__len__" => rd.pc = "returned" /\ rd.val = Len(l)
        /\ rd.op = "__iter__" => rd.pc = "returned" /\ rd.val = l
        /\ (rd.op = "__getitem__" /\ rd.stop = None /\ 0 <= rd.index /\ rd.index < Len(l)) =>
              rd.pc = "returned" /\ rd.val = l[rd.index + 1]

\* C14 witness: the second of two different records read by index.
C14_Witness ==
    /\ FetchReturned
    /\ Len(FetchedList) = 2
    /\ FetchedList[1] # FetchedList[2]
    /\ readers[1].pc = "returned"
    /\ readers[1].op = "__getitem__"
    /\ readers[1].stop = None
    /\ readers[1].index = 1
    /\ readers[1].val = FetchedList[2]

\* C15: two calls of the same blocking accessor (with the same index) that have
\* completed ended the same way with the same value, and once the thread has
\* ended no further collaborator call is made.
C15_RepeatedCallsAgree ==
    /\ [](\A r1, r2 \in DOMAIN readers :
            (Done(r1) /\ Done(r2) /\ readers[r1].op = readers[r2].op
               /\ readers[r1].index = readers[r2].index
               /\ readers[r1].stop = readers[r2].stop) =>
              readers[r1] = readers[r2])
    /\ [][ready => calls' = calls]_vars

\* C15 witness: two completed iterations over a fetched list.
C15_Witness ==
    /\ FetchReturned
    /\ FetchedList # <<>>
    /\ \A r \in Readers :
         r \in DOMAIN readers /\ readers[r].pc = "returned"
           /\ readers[r].op = "__iter__" /\ readers[r].val = FetchedList

\* C16: while the thread has not ended success() is false; once it has ended
\* success() tells whether a failure is stored; and ready(), once true, stays
\* true.
C16_ReadyAndSuccess ==
    /\ [](pc # "dead" => ~ready /\ ~success)
    /\ [](pc = "dead" => ready /\ (success <=> _exception = None))
    /\ [][ready => ready']_vars

\* C16 witness: the results are stored and no failure is, but the thread has
\* not ended yet.
C16_Witness ==
    /\ pc = "return"
    /\ _exception = None
    /\ _results # <<>>
    /\ ~ready
    /\ ~success

\* No status call made so far has returned a state that ends the polling.
NoTerminalSnapshot ==
    \A k \in PollCalls : calls[k].out \in NonTerminalStates \cup {"raised"}

\* The step in which the constructor returns to its caller.
ConstructorReturns == constructor = "started thread" /\ constructor' = "returned"

\* C17: right after the constructor has returned, ready() is false when no
\* status call has returned a terminal snapshot yet.
C17_NotReadyBeforeTerminalSnapshot ==
    [][(ConstructorReturns /\ NoTerminalSnapshot') => ~ready']_vars

\* C17, amended: the constructor can return wherever the thread is, and right
\* after it has returned ready() is false when no status call has returned a
\* terminal snapshot yet and no failure is stored.
C17_ConstructorDoesNotWait ==
    /\ [](constructor = "started thread" => ENABLED InitReturns)
    /\ [][(ConstructorReturns /\ NoTerminalSnapshot' /\ _exception' = None)
            => ~ready']_vars

\* C17 witness: the constructor has returned before the first status call.
C17_Witness ==
    /\ constructor = "returned"
    /\ pc = "loop"
    /\ PollCalls = {}
    /\ _max_requests > 0
    /\ ~ready

\* C18: with collaborators that return or raise and threads that are scheduled,
\* the thread eventually ends, so that ready() becomes true, and a caller that
\* has entered a blocking accessor eventually gets its value or its exception.
C18_EventuallyTerminal ==
    /\ <>ready
    /\ (readers[1].pc = "join") ~> Done(1)

\* C18 witness: a caller that entered an accessor while the thread was polling
\* has its answer from the ended thread.
C18_Witness ==
    /\ ready
    /\ polls = MaxRequests
    /\ Done(1)
    /\ readers[1].op = "wait"

\* C19: count is the length of the stored result list, which is the list the
\* result call returned whatever count the snapshot reported, and after a
\* failure that is not raised the list is empty and count is 0.
C19_CountIsLengthOfResults ==
    \A r \in DOMAIN readers :
      (readers[r].pc = "returned" /\ readers[r].op = "count") =>
        /\ readers[r].val = Len(_results)
        /\ FetchReturned => readers[r].val = Len(FetchedList)
        /\ _exception # None => ~_raise_errors /\ _results = <<>> /\ readers[r].val = 0

\* C19 witness: count is 1 after a snapshot that reported MaxLen results.
C19_Witness ==
    /\ readers[1].pc = "returned"
    /\ readers[1].op = "count"
    /\ readers[1].val = 1
    /\ _status = "ResultReady"
    /\ status.count = Some(MaxLen)

\* The status calls whose snapshot the loop has recorded: those that returned,
\* but for one that has only just returned.
RecordedPolls ==
    {k \in PollCalls : calls[k].out # "raised" /\ (pc = "set_status" => k < Len(calls))}

\* The state of the last recorded snapshot, 'Created' when there is none.
LastRecordedState ==
    IF RecordedPolls = {} THEN "Created"
    ELSE calls[CHOOSE k \in RecordedPolls : \A j \in RecordedPolls : j <= k].out

C21_IndexingLikeAList ==
    \A r \in DOMAIN readers :
      (Done(r) /\ success /\ readers[r].op = "__getitem__") =>
        LET rd == readers[r]
            n == Len(_results)
            i == rd.index
        IN  IF rd.stop = None
              THEN IF i >= n \/ i < -n
                     THEN rd.pc = "raised" /\ rd.val = Some(IndexError)
                     ELSE /\ rd.pc = "returned"
                          /\ rd.val = _results[IF i >= 0 THEN i + 1 ELSE n + i + 1]
              ELSE /\ rd.pc = "returned"
                   /\ \A k \in 1..n : (i < k /\ k <= Val(rd.stop)) =>
                         k - i <= Len(rd.val) /\ rd.val[k - i] = _results[k]
                   /\ \A k \in 1..Len(rd.val) : i + k <= n /\ i + k <= Val(rd.stop)

\* C21 witness: an index past the end of a fetched list raised IndexError
\* although raise_errors is false.
C21_Witness ==
    /\ success
    /\ ~_raise_errors
    /\ Len(_results) = MaxLen
    /\ readers[1].pc = "raised"
    /\ readers[1].op = "__getitem__"
    /\ readers[1].index = MaxLen
    /\ readers[1].val = Some(IndexError)

\* The thread is inside the loop or has just left it by break, with a
\* snapshot polled: the states in which a reader can look at a running task
\* whose last snapshot should be on record.
SnapshotOnRecord ==
    /\ pc \in {"set_message", "set_duration", "sleep", "check", "loop", "success"}
    /\ status # NoSnapshot

\* C22: before termination the recorded status, message and elapsed are those
\* of one snapshot: from the second poll on, once the status of the last polled
\* snapshot is on record, so are its message and its elapsed time (and not
\* those of the poll before).
C22_OneSnapshotOnRecord ==
    (SnapshotOnRecord /\ polls >= 2 /\ _status = status.status) =>
      /\ _message = Some(GetMessage(status))
      /\ (status.elapsed # Absent /\ ParsesAsDuration(Val(status.elapsed))) =>
            _duration = Some(duration(Val(status.elapsed)))

\* C23: every step that changes the status, the failure, the message, the
\* duration or the results is a step of the one SearchThread, taken while it is
\* alive: it moves the thread on and is no step of a caller or of the
\* constructor's return.
C23_OnlyTheThreadWrites ==
    [][taskvars' # taskvars =>
         /\ pc # "dead"
         /\ pc' # pc
         /\ readers' = readers
         /\ constructor' = constructor]_vars

\* C23 witness: a caller has read the message the thread stored.
C23_Witness ==
    /\ readers[1].pc = "returned"
    /\ readers[1].op = "message"
    /\ readers[1].val = Some("No results found")
    /\ _message = Some("No results found")

\* The thread has left the loop by break on a ResultReady snapshot and has
\* gone through the step that follows the loop.
NormalExit ==
    /\ Finished
    /\ status.status = "ResultReady"
    /\ status.elapsed # Absent
    /\ ParsesAsDuration(Val(status.elapsed))

FetchCalls == {k \in 1..Len(calls) : calls[k].fn = "fetch"}

\* C24: when the loop was left on a ResultReady snapshot, the result call has
\* been made exactly once, with the transaction ID, whatever count the snapshot
\* reported.
C24_FetchExactlyOnce ==
    (NormalExit /\ status.count # Absent) =>
      /\ Cardinality(FetchCalls) = 1
      /\ \A k \in FetchCalls : calls[k].arg = rid

\* C24, amended: the result call is made at most once and with the transaction
\* ID; when the loop was left on a ResultReady snapshot it has been made
\* exactly once if the snapshot's count is greater than 0, and not at all
\* otherwise.
C24_FetchOnceWhenCountPositive ==
    /\ Cardinality(FetchCalls) <= 1
    /\ \A k \in FetchCalls : calls[k].arg = rid /\ rid \in Rids
    /\ NormalExit =>
         Cardinality(FetchCalls) =
           (IF status.count # Absent /\ Val(status.count) > 0 THEN 1 ELSE 0)

\* C24 witness: a task that succeeded on a snapshot with count 0 without any
\* result call.
C24_Witness ==
    /\ NormalExit
    /\ status.count = Some(0)
    /\ _exception = None
    /\ FetchCalls = {}

\* The status calls that returned a state after which polling goes on.
ContinuingPolls ==
    {k \in PollCalls : calls[k].out \in NonTerminalStates \cup {"PartialResultReady"}}

\* C25: the thread sleeps only after a snapshot after which polling goes on:
\* the number of sleeps never exceeds the number of such snapshots.
C25_SleepsOnlyBetweenPolls == sleeps <= Cardinality(ContinuingPolls)

\* C25, what the code does: one sleep for every snapshot it has recorded,
\* whatever the state.
C25_SleepsAfterEverySnapshot ==
    /\ sleeps <= Cardinality({k \in PollCalls : calls[k].out # "raised"})
    /\ (Finished /\ status.status = "ResultReady" /\ status.elapsed # Absent
          /\ ParsesAsDuration(Val(status.elapsed))) =>
         sleeps = Cardinality(ContinuingPolls) + 1

\* The phase of the task: before the submission has returned, polling, and
\* past the loop (outcome being stored or stored).
Phase(p) ==
    CASE p = "submit" -> 0
      [] p \in {"loop", "set_status", "set_message", "set_duration", "sleep", "check"} -> 1
      [] p \in {"success", "return", "dead"} -> 2

\* The collaborator calls made so far: one submit first, then status calls with
\* the transaction ID submit returned, at most max_requests of them, then at
\* most one result call with the same ID, right after a status call that
\* returned ResultReady; a call that raised or a snapshot of a failed search
\* is the last call.
TraceShape ==
    /\ \A k \in 1..Len(calls) : calls[k].fn = "submit" <=> k = 1
    /\ pc # "submit" => calls # <<>>
    /\ \A k \in 1..Len(calls) : calls[k].out = "raised" => k = Len(calls)
    /\ polls <= _max_requests
    /\ \A k \in PollCalls :
         /\ calls[1].out = "returned"
         /\ rid \in Rids
         /\ calls[k].arg = rid
         /\ calls[k].out \in FailedStates \cup {"TooManyRecords"} => k = Len(calls)
    /\ \A k \in FetchCalls :
         /\ k = Len(calls)
         /\ k - 1 \in PollCalls
         /\ calls[k - 1].out = "ResultReady"
         /\ calls[k].arg = rid
    /\ (_exception # None /\ Val(_exception).kind \in {"ChemSpiPyServerError", "ChemSpiPyTimeoutError"})
         => FetchCalls = {}

\* C26: the calls made always have the shape of TraceShape; a step adds at
\* most one call at the end of the trace and none once the thread has ended;
\* and the task never goes back to an earlier phase.
C26_CallTrace ==
    /\ []TraceShape
    /\ [][/\ Len(calls') \in {Len(calls), Len(calls) + 1}
          /\ SubSeq(calls', 1, Len(calls)) = calls
          /\ ready => calls' = calls
          /\ Phase(pc') >= Phase(pc)]_vars

\* C26 witness: the longest trace, submit, max_requests status calls and the
\* result call.
C26_Witness ==
    /\ ready
    /\ _max_requests = MaxRequests
    /\ Len(calls) = MaxRequests + 2
    /\ LastCall.fn = "fetch"

\* The elapsed time of the snapshot s is on record, when s carries one.
ElapsedRecorded(s) ==
    (s.elapsed # Absent /\ ParsesAsDuration(Val(s.elapsed))) =>
      _duration = Some(duration(Val(s.elapsed)))

\* C27: when the state of a snapshot is examined its message and its elapsed
\* time are on record, and they stay on record when the snapshot ends the task
\* in failure: with raise_errors false, message and duration then return the
\* message and the elapsed time of the failing snapshot.
C27_RecordedBeforeExamined ==
    /\ pc = "check" =>
         _message = Some(GetMessage(status)) /\ ElapsedRecorded(status)
    /\ (Finished /\ calls # <<>> /\ LastCall.fn = "poll"
          /\ LastCall.out \in FailedStates \cup {"TooManyRecords"}) =>
         /\ _message = Some(GetMessage(status))
         /\ ElapsedRecorded(status)
         /\ \A r \in DOMAIN readers :
              (readers[r].pc = "returned" /\ ~_raise_errors) =>
                /\ readers[r].op = "message" => readers[r].val = Some(GetMessage(status))
                /\ readers[r].op = "duration" => ElapsedRecorded(status) /\ readers[r].val = _duration

\* C27 witness: the message of a Failed snapshot read with raise_errors false.
C27_Witness ==
    /\ ~_raise_errors
    /\ LastPolled("Failed")
    /\ status.message = Some("Found by CSID")
    /\ _exception = Some(ChemSpiPyServerError(SearchFailed("Found by CSID")))
    /\ readers[1].pc = "returned"
    /\ readers[1].op = "message"
    /\ readers[1].val = Some("Found by CSID")

\* The max_requests-th status call returned ResultReady, after status calls
\* that all returned Created, Scheduled or Processing, and the thread has gone
\* on to its end.
ReadyOnLastPoll ==
    /\ Finished
    /\ _max_requests >= 1
    /\ polls = _max_requests
    /\ status.status = "ResultReady"
    /\ \A k \in PollCalls : calls[k].out \in NonTerminalStates \cup {"ResultReady"}

C29_ReprShowsListOrStatus ==
    /\ Results_repr.format = "Results(%s)"
    /\ (pc = "dead" /\ _exception = None) =>
         Results_repr.list = Some(_results) /\ Results_repr.state = None
    /\ (pc # "dead" \/ _exception # None) =>
         Results_repr.list = None /\ Results_repr.state = Some(LastRecordedState)
    /\ (ready /\ LastPolled("Failed")) => Results_repr.state = Some("Failed")

\* C29 witness: the results are stored but the thread has not ended, and repr
\* shows the status.
C29_Witness ==
    /\ pc = "return"
    /\ _exception = None
    /\ _results # <<>>
    /\ Results_repr.list = None
    /\ Results_repr.state = Some("ResultReady")

\* The accesses made to the memoized property p, in order.
AccessesOf(p) == {i \in 1..Len(accesses) : accesses[i].prop = p}

\* C30: for each memoized property, fget is called at most once with success,
\* every access after that one returns the value it returned without calling
\* fget, and an access in which fget raised leaves nothing cached, so that the
\* next access to the property calls fget again.
C30_MemoizedOnceItSucceeds ==
    \A p \in MemoizedProperties :
      /\ Cardinality({i \in AccessesOf(p) :
                        accesses[i].requested /\ accesses[i].out = "returned"}) <= 1
      /\ \A i, j \in AccessesOf(p) :
           (i < j /\ accesses[i].out = "returned") =>
             /\ ~accesses[j].requested
             /\ accesses[j].out = "returned"
             /\ accesses[j].val = accesses[i].val
      /\ \A i, j \in AccessesOf(p) :
           (i < j /\ accesses[i].out = "raised"
              /\ \A k \in AccessesOf(p) : ~(i < k /\ k < j)) =>
             accesses[j].requested
      /\ (\A i \in AccessesOf(p) : accesses[i].out = "raised") => attrs[p] = Absent

\* C30 witness: a request that raised, the request made again, and its value
\* returned from the cache.
C30_Witness ==
    /\ Len(accesses) = 3
    /\ \A i \in 1..3 : accesses[i].prop = "_compound_info"
    /\ accesses[1].out = "raised"
    /\ accesses[2].requested /\ accesses[2].out = "returned"
    /\ ~accesses[3].requested /\ accesses[3].val = accesses[2].val
====
